---- MODULE Spec2Model ----
(***************************************************************************)
(* gh-worktree: creation and removal of a git worktree for a branch.       *)
(*                                                                         *)
(* The repository holds two revisions of the create command:               *)
(*   createWorktree  (src/unnamed/part_000, package cmd) on top of the git *)
(*                   package of src/unnamed/part_001;                      *)
(*   runCreate       (src/cmd/create.go) on top of worktree.Creator.       *)
(* Both are modelled as operations on one repository.  Every git command   *)
(* is an external process: one step of the model, whose outcome (success,  *)
(* or a failure with the partial state git can leave) is chosen            *)
(* nondeterministically.  The internal/worktree package is not part of the *)
(* sources at hand; its functions are the thin operators worktreeExists,   *)
(* worktreeCreate, worktreeAttach, worktreeRemove, the Creator steps and   *)
(* the steps of the remove command.                                        *)
(***************************************************************************)
EXTENDS Naturals, Sequences, FiniteSets

VARIABLES
    branchRef,        \* refs/heads/<b>: the commit a branch points at, or NoRef
    dirs,             \* the directories that exist on disk
    regs,             \* git's worktree records: path -> branch checked out there
    dirty,            \* the worktree directories that hold uncommitted changes
    forceFlag,        \* package-level flag --force
    useExistingFlag,  \* package-level flag --use-existing
    entry,            \* the command running: createWorktree, runCreate or remove
    req,              \* [path, branch, startPoint] of the running call
    pc,               \* position of the running call
    ret,              \* [err, what]: the error value the call returned
    decision,         \* how the branch conflict was resolved in this call
    chosen,           \* what the prompt of this call returned, "none" before
    created,          \* what this call has created so far: [branch, path]
    calls,            \* the external commands and prompts issued by this call
    pre,              \* the repository as it was when the call started
    ncalls,           \* how many commands have been run so far
    prev,             \* the path the command before this one has removed, or ""
    proc,             \* concurrent createWorktree calls: process -> its state
    lock              \* the per-repository mutex of the callers: holder, or free

vars == <<branchRef, dirs, regs, dirty, dirty, forceFlag, useExistingFlag, entry, req,
          pc, ret, decision, chosen, created, calls, pre, ncalls, prev, proc,
          lock>>

\* The number of commands run one after the other on the same repository.
MaxCalls == 2

Branches == {"feature", "main"}
Paths == {"/w/a", "/w/b"}
StartPoints == {"HEAD", "FETCH_HEAD"}
NoRef == "noref"
NoBranch == ""
OldCommit == "c0"
Commits == {OldCommit} \cup StartPoints

Repo == [b |-> branchRef, d |-> dirs, r |-> regs, u |-> dirty]

NoReq == [path |-> "", branch |-> NoBranch, startPoint |-> ""]
NoRet == [err |-> FALSE, what |-> "pending"]
NoPrev == ""

\* The processes that run createWorktree at the same time on one repository.
Procs == {"p1", "p2"}
IdleProc == [pc |-> "idle", ret |-> NoRet, decision |-> "none",
             created |-> [branch |-> FALSE, path |-> FALSE], calls |-> <<>>]
\* The callers use no mutex / the mutex is held by nobody.
NoLock == "none"
Free == "free"

CheckedOut(R, branch) == \E p \in Paths : R.r[p] = branch
PathFree(R, path) == ~R.d[path] /\ R.r[path] = NoBranch

(***************************************************************************)
(* package git (src/unnamed/part_001).  Each operator gives the set of     *)
(* outcomes [ok, repo] the command can have from repository R.             *)
(***************************************************************************)

\* git show-ref --verify --quiet refs/heads/<branch>
BranchExists(R, branch) == R.b[branch] # NoRef

\* git branch -D <branch>: refuses a branch that is checked out in a worktree.
BranchDelete(R, branch, force) ==
    {[ok |-> FALSE, repo |-> R]}
    \cup (IF BranchExists(R, branch) /\ ~CheckedOut(R, branch)
          THEN {[ok |-> TRUE, repo |-> [R EXCEPT !.b[branch] = NoRef]]}
          ELSE {})

\* What a failed "git worktree add" can leave at a path that was free:
\* nothing, the directory, or the directory and its worktree record.
AddLeftovers(R, branch, path) ==
    IF PathFree(R, path)
    THEN {R, [R EXCEPT !.d[path] = TRUE],
          [R EXCEPT !.d[path] = TRUE, !.r[path] = branch]}
    ELSE {R}

\* git worktree add -b <branch> <path> <ref>: creates the branch at ref, then
\* the worktree.  It refuses an existing branch name; a failure after the
\* branch was created leaves the branch.
WorktreeAddFromRef(R, branch, path, ref) ==
    IF BranchExists(R, branch)
    THEN {[ok |-> FALSE, repo |-> R]}
    ELSE LET B == [R EXCEPT !.b[branch] = ref]
         IN {[ok |-> FALSE, repo |-> R]}
            \cup {[ok |-> FALSE, repo |-> L] : L \in AddLeftovers(B, branch, path)}
            \cup (IF PathFree(R, path)
                  THEN {[ok |-> TRUE,
                         repo |-> [B EXCEPT !.d[path] = TRUE, !.r[path] = branch]]}
                  ELSE {})

\* git worktree add <path> <branch>: checks out an existing branch that no
\* other worktree has checked out.
WorktreeAddFromBranch(R, branch, path) ==
    {[ok |-> FALSE, repo |-> L] :
        L \in (IF BranchExists(R, branch) /\ ~CheckedOut(R, branch)
               THEN AddLeftovers(R, branch, path)
               ELSE {R})}
    \cup (IF BranchExists(R, branch) /\ ~CheckedOut(R, branch) /\ PathFree(R, path)
          THEN {[ok |-> TRUE,
                 repo |-> [R EXCEPT !.d[path] = TRUE, !.r[path] = branch]]}
          ELSE {})

\* WorktreeRemove that passes --force whatever the flag says.
WorktreeRemoveAlwaysForces(R, path, force) ==
    {[ok |-> FALSE, repo |-> R]}
    \cup (IF R.r[path] # NoBranch
          THEN {[ok |-> TRUE,
                 repo |-> [R EXCEPT !.d[path] = FALSE, !.r[path] = NoBranch,
                                    !.u[path] = FALSE]]}
          ELSE {})

\* git worktree remove <path> [--force]: removes the record and the directory
\* of a registered worktree; without --force it refuses a worktree that holds
\* uncommitted changes.
WorktreeRemove(R, path, force) ==
    {[ok |-> FALSE, repo |-> R]}
    \cup (IF R.r[path] # NoBranch /\ (force \/ ~R.u[path])
          THEN {[ok |-> TRUE,
                 repo |-> [R EXCEPT !.d[path] = FALSE, !.r[path] = NoBranch,
                                    !.u[path] = FALSE]]}
          ELSE {})

\* git status --porcelain in <path> gives output.
HasUncommittedChanges(R, path) == R.u[path]

\* git worktree list --porcelain names <path>.
WorktreeIsRegistered(R, path) == R.r[path] # NoBranch

\* git rev-parse --abbrev-ref HEAD in <path>; the caller drops the error.
GetCurrentBranch(R, path) == R.r[path]

\* os.RemoveAll(path): removes the directory; git's record is not touched.
RemoveAll(R, path) ==
    {[ok |-> FALSE, repo |-> R],
     [ok |-> TRUE, repo |-> [R EXCEPT !.d[path] = FALSE, !.u[path] = FALSE]]}

(***************************************************************************)
(* package worktree (not among the sources): the stateless functions the   *)
(* refactored command calls.                                               *)
(***************************************************************************)
worktreeExists(R, path) == R.d[path]
worktreeCreate(R, path, branch, startPoint) == WorktreeAddFromRef(R, branch, path, startPoint)
worktreeAttach(R, path, branch) == WorktreeAddFromBranch(R, branch, path)

\* worktree.Remove(repoPath, path, branch, force) of the Creator revision: the
\* worktree record is removed (a directory without a record is deleted
\* directly), then the branch, when one is given, is deleted.
worktreeRemove(R, path, branch, force) ==
    LET step1 == IF R.r[path] # NoBranch THEN WorktreeRemove(R, path, force)
                 ELSE IF R.d[path] THEN RemoveAll(R, path)
                 ELSE {[ok |-> TRUE, repo |-> R]}
    IN UNION {IF ~o.ok \/ branch = NoBranch THEN {o}
              ELSE BranchDelete(o.repo, branch, force) : o \in step1}

\* What a step has added to the repository: the branch, something at the path.
Made(before, after, branch, path) ==
    [branch |-> ~BranchExists(before, branch) /\ BranchExists(after, branch),
     path |-> PathFree(before, path) /\ ~PathFree(after, path)]

(***************************************************************************)
(* State changes shared by the steps.                                      *)
(***************************************************************************)
SetRepo(R) ==
    /\ branchRef' = R.b
    /\ dirs' = R.d
    /\ regs' = R.r
    /\ dirty' = R.u

Log(op, ok) == Append(calls, [op |-> op, ok |-> ok])

Return(isErr, what) ==
    /\ pc' = "done"
    /\ ret' = [err |-> isErr, what |-> what]

TypeOK ==
    /\ branchRef \in [Branches -> Commits \cup {NoRef}]
    /\ dirs \in [Paths -> BOOLEAN]
    /\ regs \in [Paths -> Branches \cup {NoBranch}]
    /\ dirty \in [Paths -> BOOLEAN]
    /\ forceFlag \in BOOLEAN
    /\ useExistingFlag \in BOOLEAN
    /\ entry \in {"none", "createWorktree", "runCreate", "remove"}
    /\ ret.err \in BOOLEAN
    /\ decision \in {"none", "NoConflict", "Overwrite", "Attach", "Cancel"}
    /\ chosen \in {"none", "Overwrite", "Attach", "Cancel"}
    /\ prev \in Paths \cup {NoPrev}
    /\ created \in [branch : BOOLEAN, path : BOOLEAN]
    /\ ncalls \in 0..MaxCalls
    /\ \A p, q \in Paths : (p # q /\ regs[p] # NoBranch) => regs[p] # regs[q]
    /\ \A p \in Paths : regs[p] # NoBranch => branchRef[regs[p]] # NoRef
    /\ \A p \in Paths : dirty[p] => (dirs[p] /\ regs[p] # NoBranch)

(***************************************************************************)
(* The repository before the first command: any state git itself keeps     *)
(* consistent (a record names an existing branch, a branch is checked out  *)
(* in at most one worktree); a directory may exist without a record and a  *)
(* record without its directory.                                           *)
(***************************************************************************)
Init ==
    /\ branchRef \in [Branches -> {OldCommit, NoRef}]
    /\ dirs \in [Paths -> BOOLEAN]
    /\ regs \in [Paths -> Branches \cup {NoBranch}]
    /\ \A p \in Paths : regs[p] # NoBranch => branchRef[regs[p]] # NoRef
    /\ \A p, q \in Paths : (p # q /\ regs[p] # NoBranch) => regs[p] # regs[q]
    /\ dirty \in [Paths -> BOOLEAN]
    /\ \A p \in Paths : dirty[p] => (dirs[p] /\ regs[p] # NoBranch)
    /\ forceFlag = FALSE
    /\ useExistingFlag = FALSE
    /\ entry = "none"
    /\ req = NoReq
    /\ pc = "idle"
    /\ ret = NoRet
    /\ decision = "none"
    /\ chosen = "none"
    /\ created = [branch |-> FALSE, path |-> FALSE]
    /\ calls = <<>>
    /\ pre = Repo
    /\ ncalls = 0
    /\ prev = NoPrev
    /\ proc = [p \in Procs |-> IdleProc]
    /\ lock = NoLock

\* The command line is parsed and the command function is entered.
Invoke ==
    /\ pc \in {"idle", "done"}
    /\ ncalls < MaxCalls
    /\ ncalls' = ncalls + 1
    /\ \E e \in {"createWorktree", "runCreate"}, p \in Paths, b \in Branches,
          s \in StartPoints, f \in BOOLEAN, u \in BOOLEAN :
        /\ entry' = e
        /\ req' = [path |-> p, branch |-> b, startPoint |-> s]
        /\ forceFlag' = f
        /\ useExistingFlag' = u
        /\ pc' = IF e = "createWorktree" THEN "cwCheckPath" ELSE "rcCheckPath"
    /\ ret' = NoRet
    /\ decision' = "none"
    /\ chosen' = "none"
    /\ created' = [branch |-> FALSE, path |-> FALSE]
    /\ calls' = <<>>
    /\ pre' = Repo
    /\ prev' = IF entry = "remove" /\ pc = "done" /\ ~ret.err THEN req.path ELSE NoPrev
    /\ UNCHANGED <<branchRef, dirs, regs, dirty, proc, lock>>

(***************************************************************************)
(* createWorktree (src/unnamed/part_000, lines 203-264).                   *)
(***************************************************************************)

\* 1. Check if the worktree directory already exists.
CwCheckPath ==
    /\ pc = "cwCheckPath"
    /\ IF worktreeExists(Repo, req.path)
       THEN Return(TRUE, "worktree directory already exists")
       ELSE pc' = "cwCheckBranch" /\ ret' = ret
    /\ UNCHANGED <<branchRef, dirs, regs, dirty, forceFlag, useExistingFlag, entry, req,
                   decision, created, calls, pre, ncalls, prev, chosen, proc, lock>>

\* CwCheckBranch with the prompt outside the "if git.BranchExists" block.
CwCheckBranchPromptsAlways ==
    /\ pc = "cwCheckBranch"
    /\ LET exists == BranchExists(Repo, req.branch)
       IN /\ calls' = Log("BranchExists", exists)
          /\ IF exists /\ useExistingFlag
             THEN pc' = "cwAttach" /\ decision' = "Attach"
             ELSE pc' = "cwPrompt" /\ decision' = decision
    /\ UNCHANGED <<branchRef, dirs, regs, dirty, forceFlag, useExistingFlag, entry, req,
                   ret, created, pre, ncalls, prev, chosen, proc, lock>>

\* CwCheckBranch without the useExistingFlag shortcut.
CwCheckBranchIgnoresUseExisting ==
    /\ pc = "cwCheckBranch"
    /\ LET exists == BranchExists(Repo, req.branch)
       IN /\ calls' = Log("BranchExists", exists)
          /\ IF ~exists
             THEN pc' = "cwCreate" /\ decision' = "NoConflict"
             ELSE pc' = "cwPrompt" /\ decision' = decision
    /\ UNCHANGED <<branchRef, dirs, regs, dirty, forceFlag, useExistingFlag, entry, req,
                   ret, created, pre, ncalls, prev, chosen, proc, lock>>

\* 2. Check if the branch exists: attach with --use-existing, else prompt.
CwCheckBranch ==
    /\ pc = "cwCheckBranch"
    /\ LET exists == BranchExists(Repo, req.branch)
       IN /\ calls' = Log("BranchExists", exists)
          /\ IF ~exists
             THEN pc' = "cwCreate" /\ decision' = "NoConflict"
             ELSE IF useExistingFlag
                  THEN pc' = "cwAttach" /\ decision' = "Attach"
                  ELSE pc' = "cwPrompt" /\ decision' = decision
    /\ UNCHANGED <<branchRef, dirs, regs, dirty, forceFlag, useExistingFlag, entry, req,
                   ret, created, pre, ncalls, prev, chosen, proc, lock>>

\* The options of the prompt, by index.
Option(i) == IF i = 0 THEN "Overwrite" ELSE IF i = 1 THEN "Attach" ELSE "Cancel"

\* p.Select over {Overwrite, Attach, Cancel}; an error of the prompt cancels.
CwPrompt ==
    /\ pc = "cwPrompt"
    /\ \E choice \in 0..2, perr \in BOOLEAN :
        /\ calls' = Log("Select", ~perr)
        /\ chosen' = IF perr THEN "none" ELSE Option(choice)
        /\ CASE perr ->
                    /\ Return(TRUE, "operation cancelled")
                    /\ decision' = "Cancel"
             [] ~perr /\ choice = 0 ->
                    /\ pc' = "cwDelete" /\ ret' = ret
                    /\ decision' = "Overwrite"
             [] ~perr /\ choice = 1 ->
                    /\ pc' = "cwAttach" /\ ret' = ret
                    /\ decision' = "Attach"
             [] ~perr /\ choice = 2 ->
                    /\ Return(TRUE, "operation cancelled")
                    /\ decision' = "Cancel"
    /\ UNCHANGED <<branchRef, dirs, regs, dirty, forceFlag, useExistingFlag, entry, req,
                   created, pre, ncalls, prev, proc, lock>>

\* CwDelete that continues to the creation whether or not the deletion worked.
CwDeleteBestEffort ==
    /\ pc = "cwDelete"
    /\ \E o \in BranchDelete(Repo, req.branch, TRUE) :
        /\ SetRepo(o.repo)
        /\ calls' = Log("BranchDelete", o.ok)
        /\ pc' = "cwCreate" /\ ret' = ret
    /\ UNCHANGED <<forceFlag, useExistingFlag, entry, req, decision, created, pre, ncalls, prev, chosen, proc, lock>>

\* CwDelete that tries the deletion a second time when the first one failed.
CwDeleteRetries ==
    /\ pc = "cwDelete"
    /\ \E o \in BranchDelete(Repo, req.branch, TRUE) :
        IF o.ok
        THEN /\ SetRepo(o.repo)
             /\ calls' = Log("BranchDelete", TRUE)
             /\ pc' = "cwCreate" /\ ret' = ret
        ELSE \E o2 \in BranchDelete(Repo, req.branch, TRUE) :
             /\ SetRepo(o2.repo)
             /\ calls' = Append(Log("BranchDelete", FALSE),
                                [op |-> "BranchDelete", ok |-> o2.ok])
             /\ IF o2.ok
                THEN pc' = "cwCreate" /\ ret' = ret
                ELSE Return(TRUE, "failed to delete branch")
    /\ UNCHANGED <<forceFlag, useExistingFlag, entry, req, decision, created, pre, ncalls, prev, chosen, proc, lock>>

\* case 0: git.BranchDelete(info.BranchName, true), then continue to creation.
CwDelete ==
    /\ pc = "cwDelete"
    /\ \E o \in BranchDelete(Repo, req.branch, TRUE) :
        /\ SetRepo(o.repo)
        /\ calls' = Log("BranchDelete", o.ok)
        /\ IF o.ok
           THEN pc' = "cwCreate" /\ ret' = ret
           ELSE Return(TRUE, "failed to delete branch")
    /\ UNCHANGED <<forceFlag, useExistingFlag, entry, req, decision, created, pre, ncalls, prev, chosen, proc, lock>>

\* CwAttach that, when attaching fails, cleans up like the creation path of a
\* transactional Create would: by deleting the branch.
CwAttachDeletesBranch ==
    /\ pc = "cwAttach"
    /\ \E o \in worktreeAttach(Repo, req.path, req.branch) :
        /\ created' = Made(Repo, o.repo, req.branch, req.path)
        /\ IF o.ok
           THEN /\ SetRepo(o.repo)
                /\ calls' = Log("WorktreeAddFromBranch", o.ok)
                /\ Return(FALSE, "ok")
           ELSE \E x \in BranchDelete(o.repo, req.branch, TRUE) :
                /\ SetRepo(x.repo)
                /\ calls' = Append(Log("WorktreeAddFromBranch", o.ok),
                                   [op |-> "BranchDelete", ok |-> x.ok])
                /\ Return(TRUE, "attach failed")
    /\ UNCHANGED <<forceFlag, useExistingFlag, entry, req, decision, pre, ncalls, prev, chosen, proc, lock>>

\* worktree.Attach(worktreePath, info.BranchName); an error is returned as is.
CwAttach ==
    /\ pc = "cwAttach"
    /\ \E o \in worktreeAttach(Repo, req.path, req.branch) :
        /\ SetRepo(o.repo)
        /\ calls' = Log("WorktreeAddFromBranch", o.ok)
        /\ created' = Made(Repo, o.repo, req.branch, req.path)
        /\ IF o.ok THEN Return(FALSE, "ok") ELSE Return(TRUE, "attach failed")
    /\ UNCHANGED <<forceFlag, useExistingFlag, entry, req, decision, pre, ncalls, prev, chosen, proc, lock>>

\* CwCreate that starts the branch from HEAD whatever the start point is.
CwCreateFromHead ==
    /\ pc = "cwCreate"
    /\ \E o \in worktreeCreate(Repo, req.path, req.branch, "HEAD") :
        /\ SetRepo(o.repo)
        /\ calls' = Log("WorktreeAddFromRef", o.ok)
        /\ created' = Made(Repo, o.repo, req.branch, req.path)
        /\ IF o.ok
           THEN Return(FALSE, "ok")
           ELSE pc' = "cwCleanup" /\ ret' = ret
    /\ UNCHANGED <<forceFlag, useExistingFlag, entry, req, decision, pre, ncalls, prev, chosen, proc, lock>>

\* 3. worktree.Create(worktreePath, info.BranchName, startPoint).
CwCreate ==
    /\ pc = "cwCreate"
    /\ \E o \in worktreeCreate(Repo, req.path, req.branch, req.startPoint) :
        /\ SetRepo(o.repo)
        /\ calls' = Log("WorktreeAddFromRef", o.ok)
        /\ created' = Made(Repo, o.repo, req.branch, req.path)
        /\ IF o.ok
           THEN Return(FALSE, "ok")
           ELSE pc' = "cwCleanup" /\ ret' = ret
    /\ UNCHANGED <<forceFlag, useExistingFlag, entry, req, decision, pre, ncalls, prev, chosen, proc, lock>>

\* Simple cleanup: if worktree.Exists(worktreePath) { os.RemoveAll(worktreePath) },
\* the result of RemoveAll is dropped; then return err.
CwCleanup ==
    /\ pc = "cwCleanup"
    /\ IF worktreeExists(Repo, req.path)
       THEN \E o \in RemoveAll(Repo, req.path) :
               /\ SetRepo(o.repo)
               /\ calls' = Log("RemoveAll", o.ok)
       ELSE UNCHANGED <<branchRef, dirs, regs, dirty, calls>>
    /\ Return(TRUE, "create failed")
    /\ UNCHANGED <<forceFlag, useExistingFlag, entry, req, decision, created, pre, ncalls, prev, chosen, proc, lock>>

(***************************************************************************)
(* runCreate (src/cmd/create.go, lines 34-142).                            *)
(***************************************************************************)

\* Check if worktree directory already exists: with --force it is removed,
\* otherwise the user is asked to confirm the overwrite.
RcCheckPath ==
    /\ pc = "rcCheckPath"
    /\ pc' = IF ~worktreeExists(Repo, req.path) THEN "rcCheckBranch"
             ELSE IF forceFlag THEN "rcRemove"
             ELSE "rcConfirm"
    /\ UNCHANGED <<branchRef, dirs, regs, dirty, forceFlag, useExistingFlag, entry, req,
                   ret, decision, created, calls, pre, ncalls, prev, chosen, proc, lock>>

\* p.Confirm("Worktree already exists ... Overwrite?", false)
RcConfirm ==
    /\ pc = "rcConfirm"
    /\ \E confirm \in BOOLEAN, perr \in BOOLEAN :
        /\ calls' = Log("Confirm", ~perr)
        /\ IF perr THEN Return(TRUE, "prompt failed")
           ELSE IF ~confirm THEN Return(FALSE, "operation cancelled")
           ELSE pc' = "rcRemove" /\ ret' = ret
    /\ UNCHANGED <<branchRef, dirs, regs, dirty, forceFlag, useExistingFlag, entry, req,
                   decision, created, pre, ncalls, prev, chosen, proc, lock>>

\* branch, _ := git.GetCurrentBranch(worktreePath);
\* worktree.Remove(repoPath, worktreePath, branch, true)
RcRemove ==
    /\ pc = "rcRemove"
    /\ \E o \in worktreeRemove(Repo, req.path, GetCurrentBranch(Repo, req.path), TRUE) :
        /\ SetRepo(o.repo)
        /\ calls' = Log("Remove", o.ok)
        /\ IF o.ok
           THEN pc' = "rcCheckBranch" /\ ret' = ret
           ELSE Return(TRUE, "failed to remove existing worktree")
    /\ UNCHANGED <<forceFlag, useExistingFlag, entry, req, decision, created, pre, ncalls, prev, chosen, proc, lock>>

\* The branchCheck callback, up to its prompt: an absent branch gives
\* BranchActionOverwrite, --force deletes the branch, --use-existing attaches.
RcCheckBranch ==
    /\ pc = "rcCheckBranch"
    /\ LET exists == BranchExists(Repo, req.branch)
       IN /\ calls' = Log("BranchExists", exists)
          /\ IF ~exists
             THEN pc' = "rcDecided" /\ decision' = "Overwrite"
             ELSE IF forceFlag
                  THEN pc' = "rcDelete" /\ decision' = decision
                  ELSE IF useExistingFlag
                       THEN pc' = "rcDecided" /\ decision' = "Attach"
                       ELSE pc' = "rcPrompt" /\ decision' = decision
    /\ UNCHANGED <<branchRef, dirs, regs, dirty, forceFlag, useExistingFlag, entry, req,
                   ret, created, pre, ncalls, prev, chosen, proc, lock>>

\* p.Select over {Overwrite, Attach, No}: selected is the chosen action, an
\* error of the prompt returns BranchActionCancel.
RcPrompt ==
    /\ pc = "rcPrompt"
    /\ \E selectedIndex \in 0..2, perr \in BOOLEAN :
        /\ calls' = Log("Select", ~perr)
        /\ chosen' = IF perr THEN "none" ELSE Option(selectedIndex)
        /\ decision' = IF perr THEN "Cancel"
                       ELSE IF selectedIndex = 0 THEN "Overwrite"
                       ELSE IF selectedIndex = 1 THEN "Attach"
                       ELSE "Cancel"
        /\ pc' = IF ~perr /\ selectedIndex = 0 THEN "rcDelete" ELSE "rcDecided"
    /\ UNCHANGED <<branchRef, dirs, regs, dirty, forceFlag, useExistingFlag, entry, req,
                   ret, created, pre, ncalls, prev, proc, lock>>

\* git.BranchDelete(repoPath, branchName, true) inside the callback: a failure
\* is printed and the callback returns BranchActionCancel.
RcDelete ==
    /\ pc = "rcDelete"
    /\ \E o \in BranchDelete(Repo, req.branch, TRUE) :
        /\ SetRepo(o.repo)
        /\ calls' = Log("BranchDelete", o.ok)
        /\ decision' = IF o.ok THEN "Overwrite" ELSE "Cancel"
    /\ pc' = "rcDecided"
    /\ UNCHANGED <<forceFlag, useExistingFlag, entry, req, ret, created, pre, ncalls, prev, chosen, proc, lock>>

(***************************************************************************)
(* worktree.Creator (not among the sources): Create acts on the action the *)
(* callback returned, Cleanup undoes what the call created.                *)
(***************************************************************************)

\* BranchActionCancel: nothing is changed, the outcome is Cancelled.
CreatorCancel ==
    /\ pc = "rcDecided" /\ decision = "Cancel"
    /\ Return(FALSE, "operation cancelled")
    /\ UNCHANGED <<branchRef, dirs, regs, dirty, forceFlag, useExistingFlag, entry, req,
                   decision, created, calls, pre, ncalls, prev, chosen, proc, lock>>

\* BranchActionAttach: a worktree on the existing branch.
CreatorAttach ==
    /\ pc = "rcDecided" /\ decision = "Attach"
    /\ \E o \in WorktreeAddFromBranch(Repo, req.branch, req.path) :
        /\ SetRepo(o.repo)
        /\ calls' = Log("WorktreeAddFromBranch", o.ok)
        /\ created' = Made(Repo, o.repo, req.branch, req.path)
        /\ IF o.ok THEN Return(FALSE, "ok") ELSE pc' = "rcCleanupPath" /\ ret' = ret
    /\ UNCHANGED <<forceFlag, useExistingFlag, entry, req, decision, pre, ncalls, prev, chosen, proc, lock>>

\* BranchActionOverwrite: a new branch from the start point and its worktree.
CreatorCreate ==
    /\ pc = "rcDecided" /\ decision = "Overwrite"
    /\ \E o \in WorktreeAddFromRef(Repo, req.branch, req.path, req.startPoint) :
        /\ SetRepo(o.repo)
        /\ calls' = Log("WorktreeAddFromRef", o.ok)
        /\ created' = Made(Repo, o.repo, req.branch, req.path)
        /\ IF o.ok THEN Return(FALSE, "ok") ELSE pc' = "rcCleanupPath" /\ ret' = ret
    /\ UNCHANGED <<forceFlag, useExistingFlag, entry, req, decision, pre, ncalls, prev, chosen, proc, lock>>

\* Cleanup, first half: the directory and the record this call left behind.
CreatorCleanupPath ==
    /\ pc = "rcCleanupPath"
    /\ IF created.path
       THEN \E ok \in BOOLEAN :
               /\ SetRepo(IF ok THEN [Repo EXCEPT !.d[req.path] = FALSE,
                                                  !.r[req.path] = NoBranch]
                          ELSE Repo)
               /\ calls' = Log("CleanupPath", ok)
       ELSE UNCHANGED <<branchRef, dirs, regs, dirty, calls>>
    /\ pc' = "rcCleanupBranch"
    /\ UNCHANGED <<forceFlag, useExistingFlag, entry, req, ret, decision, created, pre, ncalls, prev, chosen, proc, lock>>

\* Cleanup, second half: the branch, if and only if this call created it.
CreatorCleanupBranch ==
    /\ pc = "rcCleanupBranch"
    /\ IF created.branch
       THEN \E o \in BranchDelete(Repo, req.branch, TRUE) :
               /\ SetRepo(o.repo)
               /\ calls' = Log("BranchDelete", o.ok)
       ELSE UNCHANGED <<branchRef, dirs, regs, dirty, calls>>
    /\ Return(TRUE, "create failed")
    /\ UNCHANGED <<forceFlag, useExistingFlag, entry, req, decision, created, pre, ncalls, prev, chosen, proc, lock>>

(***************************************************************************)
(* The remove command: the worktree at the path is removed, then, when a   *)
(* branch is named, the branch is deleted (worktree.Remove(path, force)    *)
(* followed by git.BranchDelete; the command itself is not among the       *)
(* sources).                                                               *)
(***************************************************************************)
InvokeRemove ==
    /\ pc \in {"idle", "done"}
    /\ ncalls < MaxCalls
    /\ ncalls' = ncalls + 1
    /\ \E p \in Paths, b \in Branches \cup {NoBranch}, f \in BOOLEAN :
        /\ req' = [path |-> p, branch |-> b, startPoint |-> ""]
        /\ forceFlag' = f
    /\ entry' = "remove"
    /\ useExistingFlag' = FALSE
    /\ pc' = "rmUnregister"
    /\ ret' = NoRet
    /\ decision' = "none"
    /\ chosen' = "none"
    /\ created' = [branch |-> FALSE, path |-> FALSE]
    /\ calls' = <<>>
    /\ pre' = Repo
    /\ prev' = IF entry = "remove" /\ pc = "done" /\ ~ret.err THEN req.path ELSE NoPrev
    /\ UNCHANGED <<branchRef, dirs, regs, dirty, proc, lock>>

\* RmUnregister that runs "git worktree remove" whatever is at the path.
RmUnregisterAlwaysGit ==
    /\ pc = "rmUnregister"
    /\ \E o \in WorktreeRemove(Repo, req.path, forceFlag) :
          /\ SetRepo(o.repo)
          /\ calls' = Log("WorktreeRemove", o.ok)
          /\ IF o.ok THEN pc' = "rmBranch" /\ ret' = ret
             ELSE Return(TRUE, "failed to remove worktree")
    /\ UNCHANGED <<forceFlag, useExistingFlag, entry, req, decision, created, pre,
                   ncalls, prev, chosen, proc, lock>>

\* RmUnregister that takes a path without a record to be already absent.
RmUnregisterNoFallback ==
    /\ pc = "rmUnregister"
    /\ IF WorktreeIsRegistered(Repo, req.path)
       THEN \E o \in WorktreeRemove(Repo, req.path, forceFlag) :
              /\ SetRepo(o.repo)
              /\ calls' = Log("WorktreeRemove", o.ok)
              /\ IF o.ok THEN pc' = "rmBranch" /\ ret' = ret
                 ELSE Return(TRUE, "failed to remove worktree")
       ELSE /\ pc' = "rmBranch"
            /\ ret' = [err |-> FALSE, what |-> "already absent"]
            /\ UNCHANGED <<branchRef, dirs, regs, dirty, calls>>
    /\ UNCHANGED <<forceFlag, useExistingFlag, entry, req, decision, created, pre,
                   ncalls, prev, chosen, proc, lock>>

\* Step 1: "git worktree remove" of a registered worktree, with the force
\* flag of the request; a directory that has no record is deleted directly;
\* a path with neither is already absent.
RmUnregister ==
    /\ pc = "rmUnregister"
    /\ IF WorktreeIsRegistered(Repo, req.path)
       THEN \E o \in WorktreeRemove(Repo, req.path, forceFlag) :
              /\ SetRepo(o.repo)
              /\ calls' = Log("WorktreeRemove", o.ok)
              /\ IF o.ok THEN pc' = "rmBranch" /\ ret' = ret
                 ELSE Return(TRUE, "failed to remove worktree")
       ELSE IF worktreeExists(Repo, req.path)
       THEN \E o \in RemoveAll(Repo, req.path) :
              /\ SetRepo(o.repo)
              /\ calls' = Log("RemoveAll", o.ok)
              /\ IF o.ok THEN pc' = "rmBranch" /\ ret' = ret
                 ELSE Return(TRUE, "failed to remove directory")
       ELSE /\ pc' = "rmBranch"
            /\ ret' = [err |-> FALSE, what |-> "already absent"]
            /\ UNCHANGED <<branchRef, dirs, regs, dirty, calls>>
    /\ UNCHANGED <<forceFlag, useExistingFlag, entry, req, decision, created, pre,
                   ncalls, prev, chosen, proc, lock>>

\* RmBranch that, when no branch is named, deletes the branch that was checked
\* out at the path.
RmBranchDeletesCheckedOut ==
    /\ pc = "rmBranch"
    /\ LET branch == IF req.branch = NoBranch THEN GetCurrentBranch(pre, req.path)
                     ELSE req.branch
       IN IF branch = NoBranch
          THEN /\ Return(FALSE, IF ret.what = "already absent" THEN ret.what ELSE "ok")
               /\ UNCHANGED <<branchRef, dirs, regs, dirty, calls>>
          ELSE \E o \in BranchDelete(Repo, branch, forceFlag) :
                 /\ SetRepo(o.repo)
                 /\ calls' = Log("BranchDelete", o.ok)
                 /\ IF o.ok
                    THEN Return(FALSE, IF ret.what = "already absent" THEN ret.what ELSE "ok")
                    ELSE Return(TRUE, "failed to delete branch")
    /\ UNCHANGED <<forceFlag, useExistingFlag, entry, req, decision, created, pre,
                   ncalls, prev, chosen, proc, lock>>

\* Step 2, only when the request names a branch: "git branch -d/-D".  Its
\* failure is returned; the removal of step 1 stays.
RmBranch ==
    /\ pc = "rmBranch"
    /\ IF req.branch = NoBranch
       THEN /\ Return(FALSE, IF ret.what = "already absent" THEN ret.what ELSE "ok")
            /\ UNCHANGED <<branchRef, dirs, regs, dirty, calls>>
       ELSE \E o \in BranchDelete(Repo, req.branch, forceFlag) :
              /\ SetRepo(o.repo)
              /\ calls' = Log("BranchDelete", o.ok)
              /\ IF o.ok
                 THEN Return(FALSE, IF ret.what = "already absent" THEN ret.what ELSE "ok")
                 ELSE Return(TRUE, "failed to delete branch")
    /\ UNCHANGED <<forceFlag, useExistingFlag, entry, req, decision, created, pre,
                   ncalls, prev, chosen, proc, lock>>

Next ==
    \/ Invoke
    \/ CwCheckPath
    \/ CwCheckBranch
    \/ CwPrompt
    \/ CwDelete
    \/ CwAttach
    \/ CwCreate
    \/ CwCleanup
    \/ RcCheckPath
    \/ RcConfirm
    \/ RcRemove
    \/ RcCheckBranch
    \/ RcPrompt
    \/ RcDelete
    \/ CreatorCancel
    \/ CreatorAttach
    \/ CreatorCreate
    \/ CreatorCleanupPath
    \/ CreatorCleanupBranch
    \/ InvokeRemove
    \/ RmUnregister
    \/ RmBranch

Spec == Init /\ [][Next]_vars

(***************************************************************************)
(* Two createWorktree commands (src/unnamed/part_000, lines 203-264) run   *)
(* at the same time, as two processes, on the same repository with the     *)
(* same path and branch.  Each git command is one atomic step; the steps   *)
(* of the two processes interleave freely unless the callers serialize the *)
(* commands with a per-repository mutex.                                   *)
(***************************************************************************)
ConcInit ==
    /\ branchRef \in [Branches -> {OldCommit, NoRef}]
    /\ dirs \in [Paths -> BOOLEAN]
    /\ regs \in [Paths -> Branches \cup {NoBranch}]
    /\ \A p \in Paths : regs[p] # NoBranch => branchRef[regs[p]] # NoRef
    /\ \A p, q \in Paths : (p # q /\ regs[p] # NoBranch) => regs[p] # regs[q]
    /\ dirty = [p \in Paths |-> FALSE]
    /\ forceFlag = FALSE
    /\ useExistingFlag \in BOOLEAN
    /\ entry = "createWorktree"
    /\ req \in [path : Paths, branch : Branches, startPoint : StartPoints]
    /\ pc = "idle"
    /\ ret = NoRet
    /\ decision = "none"
    /\ chosen = "none"
    /\ created = [branch |-> FALSE, path |-> FALSE]
    /\ calls = <<>>
    /\ pre = Repo
    /\ ncalls = 0
    /\ prev = NoPrev
    /\ proc = [p \in Procs |-> IdleProc]
    /\ lock \in {NoLock, Free}

\* One step of process p: its new state P and the repository R it leaves.  A
\* process that returns gives the mutex back when it holds it.
CcStep(p, P, R) ==
    /\ proc' = [proc EXCEPT ![p] = P]
    /\ SetRepo(R)
    /\ lock' = IF P.pc = "done" /\ lock = p THEN Free ELSE lock
    /\ UNCHANGED <<forceFlag, useExistingFlag, entry, req, pc, ret, decision,
                   chosen, created, calls, pre, ncalls, prev>>

CcLog(P, op, ok) == [P EXCEPT !.calls = Append(@, [op |-> op, ok |-> ok])]
CcGo(P, to) == [P EXCEPT !.pc = to]
CcReturn(P, isErr, what) ==
    [P EXCEPT !.pc = "done", !.ret = [err |-> isErr, what |-> what]]

\* The command is started; callers that serialize take the mutex first.
CcStart(p) ==
    /\ proc[p].pc = "idle"
    /\ lock \in {NoLock, Free}
    /\ lock' = IF lock = NoLock THEN NoLock ELSE p
    /\ proc' = [proc EXCEPT ![p] = CcGo(proc[p], "cwCheckPath")]
    /\ UNCHANGED <<branchRef, dirs, regs, dirty, forceFlag, useExistingFlag, entry,
                   req, pc, ret, decision, chosen, created, calls, pre, ncalls,
                   prev>>

\* CcCheckPath that takes an existing directory for a leftover, removes it and
\* goes on.
CcCheckPathRemovesExisting(p) ==
    /\ proc[p].pc = "cwCheckPath"
    /\ IF worktreeExists(Repo, req.path)
       THEN \E o \in RemoveAll(Repo, req.path) :
              CcStep(p, CcGo(CcLog(proc[p], "RemoveAll", o.ok), "cwCheckBranch"),
                     o.repo)
       ELSE CcStep(p, CcGo(proc[p], "cwCheckBranch"), Repo)

\* 1. if worktree.Exists(worktreePath): "worktree directory already exists".
CcCheckPath(p) ==
    /\ proc[p].pc = "cwCheckPath"
    /\ IF worktreeExists(Repo, req.path)
       THEN CcStep(p, CcReturn(proc[p], TRUE, "worktree directory already exists"),
                   Repo)
       ELSE CcStep(p, CcGo(proc[p], "cwCheckBranch"), Repo)

\* 2. git.BranchExists: attach with --use-existing, else prompt.
CcCheckBranch(p) ==
    /\ proc[p].pc = "cwCheckBranch"
    /\ LET exists == BranchExists(Repo, req.branch)
           P == CcLog(proc[p], "BranchExists", exists)
       IN IF ~exists
          THEN CcStep(p, [CcGo(P, "cwCreate") EXCEPT !.decision = "NoConflict"], Repo)
          ELSE IF useExistingFlag
               THEN CcStep(p, [CcGo(P, "cwAttach") EXCEPT !.decision = "Attach"], Repo)
               ELSE CcStep(p, CcGo(P, "cwPrompt"), Repo)

\* p.Select over {Overwrite, Attach, Cancel}; an error of the prompt cancels.
CcPrompt(p) ==
    /\ proc[p].pc = "cwPrompt"
    /\ \E choice \in 0..2, perr \in BOOLEAN :
        LET P == CcLog(proc[p], "Select", ~perr)
        IN CASE perr \/ choice = 2 ->
                    CcStep(p, [CcReturn(P, TRUE, "operation cancelled")
                                  EXCEPT !.decision = "Cancel"], Repo)
             [] ~perr /\ choice = 0 ->
                    CcStep(p, [CcGo(P, "cwDelete") EXCEPT !.decision = "Overwrite"],
                           Repo)
             [] ~perr /\ choice = 1 ->
                    CcStep(p, [CcGo(P, "cwAttach") EXCEPT !.decision = "Attach"], Repo)

\* case 0: git.BranchDelete(info.BranchName, true), then the creation.
CcDelete(p) ==
    /\ proc[p].pc = "cwDelete"
    /\ \E o \in BranchDelete(Repo, req.branch, TRUE) :
        LET P == CcLog(proc[p], "BranchDelete", o.ok)
        IN IF o.ok
           THEN CcStep(p, CcGo(P, "cwCreate"), o.repo)
           ELSE CcStep(p, CcReturn(P, TRUE, "failed to delete branch"), o.repo)

\* worktree.Attach(worktreePath, info.BranchName): its error is returned as is.
CcAttach(p) ==
    /\ proc[p].pc = "cwAttach"
    /\ \E o \in worktreeAttach(Repo, req.path, req.branch) :
        LET P == [CcLog(proc[p], "WorktreeAddFromBranch", o.ok)
                     EXCEPT !.created = Made(Repo, o.repo, req.branch, req.path)]
        IN IF o.ok
           THEN CcStep(p, CcReturn(P, FALSE, "ok"), o.repo)
           ELSE CcStep(p, CcReturn(P, TRUE, "attach failed"), o.repo)

\* 3. worktree.Create(worktreePath, info.BranchName, startPoint).
CcCreate(p) ==
    /\ proc[p].pc = "cwCreate"
    /\ \E o \in worktreeCreate(Repo, req.path, req.branch, req.startPoint) :
        LET P == [CcLog(proc[p], "WorktreeAddFromRef", o.ok)
                     EXCEPT !.created = Made(Repo, o.repo, req.branch, req.path)]
        IN IF o.ok
           THEN CcStep(p, CcReturn(P, FALSE, "ok"), o.repo)
           ELSE CcStep(p, CcGo(P, "cwCleanup"), o.repo)

\* Simple cleanup: if worktree.Exists(worktreePath) { os.RemoveAll(worktreePath) },
\* then return err.
CcCleanup(p) ==
    /\ proc[p].pc = "cwCleanup"
    /\ IF worktreeExists(Repo, req.path)
       THEN \E o \in RemoveAll(Repo, req.path) :
              CcStep(p, CcReturn(CcLog(proc[p], "RemoveAll", o.ok), TRUE,
                                 "create failed"), o.repo)
       ELSE CcStep(p, CcReturn(proc[p], TRUE, "create failed"), Repo)

ConcNext ==
    \E p \in Procs :
        \/ CcStart(p)
        \/ CcCheckPath(p)
        \/ CcCheckBranch(p)
        \/ CcPrompt(p)
        \/ CcDelete(p)
        \/ CcAttach(p)
        \/ CcCreate(p)
        \/ CcCleanup(p)

SpecConc == ConcInit /\ [][ConcNext]_vars

(***************************************************************************)
(* Vocabulary of the properties.                                           *)
(***************************************************************************)
Done == pc = "done"
Succeeded == Done /\ ~ret.err /\ ret.what = "ok"
Issued(op) == \E i \in 1..Len(calls) : calls[i].op = op
IssuedOk(op) == \E i \in 1..Len(calls) : calls[i].op = op /\ calls[i].ok
Failed(op) == \E i \in 1..Len(calls) : calls[i].op = op /\ ~calls[i].ok
\* The branch check of this call has run and found the branch (or not).
FoundBranch == IssuedOk("BranchExists")
FoundNoBranch == Failed("BranchExists")
\* Commands that undo: none of those issued by this call has failed.
Compensations == {"RemoveAll", "CleanupPath"}
CompensationsOk ==
    /\ \A i \in 1..Len(calls) : calls[i].op \in Compensations => calls[i].ok
    /\ \A i, j \in 1..Len(calls) :
          (i < j /\ calls[i].op = "WorktreeAddFromRef" /\ calls[j].op = "BranchDelete")
              => calls[j].ok
Registered(branch, path) == regs[path] = branch
NotExists(R, path) == ~R.d[path] /\ R.r[path] = NoBranch

\* C1: when a Create call that did not take the Attach path returns, either
\* the branch exists with a worktree registered for it at the path, or neither
\* the branch nor a registration exists; on the Attach path a branch that
\* existed before the call still exists.  (Stated for calls that attempted the
\* creation and whose compensating commands all succeeded.)
C1_BothOrNeither ==
    Done =>
        /\ (decision # "Attach" /\ Issued("WorktreeAddFromRef") /\ CompensationsOk)
              => \/ BranchExists(Repo, req.branch) /\ Registered(req.branch, req.path)
                 \/ ~BranchExists(Repo, req.branch) /\ ~Registered(req.branch, req.path)
        /\ (decision = "Attach" /\ BranchExists(pre, req.branch))
              => BranchExists(Repo, req.branch)

\* C2: on the no-conflict and Overwrite paths, when the branch was created and
\* the registration then failed, the branch does not exist when Create returns.
C2_RollbackDeletesBranch ==
    (Done /\ decision \in {"NoConflict", "Overwrite"} /\ created.branch
          /\ Failed("WorktreeAddFromRef") /\ CompensationsOk)
        => ~BranchExists(Repo, req.branch)

\* C3: on the Attach path no "git branch -D" and no "git worktree add -b" is
\* ever issued and the branch points where it pointed before the call, also
\* when registering the worktree fails.
C3_AttachLeavesBranch ==
    decision = "Attach" =>
        /\ ~Issued("BranchDelete")
        /\ ~Issued("WorktreeAddFromRef")
        /\ BranchExists(pre, req.branch)
        /\ branchRef[req.branch] = pre.b[req.branch]

C3_Witness ==
    /\ Done /\ decision = "Attach" /\ ret.err
    /\ Failed("WorktreeAddFromBranch")

\* C4: a Create that fails from a path with no directory and no registration
\* returns with the path again without directory and registration.  (Stated
\* for calls whose compensating commands all succeeded.)
C4_NoOrphanAtPath ==
    (Done /\ ret.err /\ NotExists(pre, req.path) /\ CompensationsOk)
        => NotExists(Repo, req.path)

\* C5: when the branch exists and the decision is Cancel, no command issued
\* after the conflict was found changes anything, and the call does not return
\* an error.
C5_CancelIsNoError ==
    (Done /\ FoundBranch /\ decision = "Cancel") =>
        /\ \A i \in 1..Len(calls) :
              calls[i].op \in {"BranchDelete", "WorktreeAddFromRef",
                               "WorktreeAddFromBranch", "RemoveAll", "CleanupPath"}
                  => ~calls[i].ok
        /\ ~ret.err

C7_NoConflict ==
    \A i \in 1..Len(calls) :
        (calls[i].op = "BranchExists" /\ ~calls[i].ok) =>
            /\ ~Issued("Select")
            /\ ~Issued("WorktreeAddFromBranch")
            /\ decision \in {"NoConflict", "Overwrite"}
            /\ pc \in {"cwCreate", "cwCleanup", "rcDecided", "rcCleanupPath",
                        "rcCleanupBranch", "done"}
            /\ i < Len(calls) => calls[i + 1].op = "WorktreeAddFromRef"
            /\ Done => i < Len(calls)

C7_Witness ==
    /\ Succeeded /\ FoundNoBranch
    /\ ~forceFlag /\ ~useExistingFlag
    /\ entry = "createWorktree"
    /\ branchRef[req.branch] = req.startPoint

\* C8: with --force, once the branch check finds the branch, the prompt is
\* never shown, the branch is never attached, and the next command deletes
\* the branch, with or without --use-existing.
C8_ForceWins ==
    (forceFlag /\ FoundBranch) =>
        /\ ~Issued("Select")
        /\ ~Issued("WorktreeAddFromBranch")
        /\ decision # "Attach"
        /\ pc \notin {"cwPrompt", "rcPrompt", "cwAttach"}
        /\ \A i \in 1..Len(calls) :
              (calls[i].op = "BranchExists" /\ i < Len(calls))
                  => calls[i + 1].op = "BranchDelete"

\* C9: with --use-existing and without --force, once the branch check finds
\* the branch the call attaches: no prompt, no branch deleted or created (no
\* branch changes at all when no existing worktree had to be removed first),
\* the one command is "git worktree add <path> <branch>", and when it
\* succeeds the call succeeds with the worktree registered on that branch.
C9_UseExistingAttaches ==
    (FoundBranch /\ ~forceFlag /\ useExistingFlag) =>
        /\ decision = "Attach"
        /\ ~Issued("Select")
        /\ ~Issued("BranchDelete")
        /\ ~Issued("WorktreeAddFromRef")
        /\ branchRef[req.branch] = pre.b[req.branch]
        /\ ~Issued("Remove") => branchRef = pre.b
        /\ Done => Issued("WorktreeAddFromBranch")
        /\ (Done /\ IssuedOk("WorktreeAddFromBranch")) =>
              /\ Succeeded
              /\ Registered(req.branch, req.path)
              /\ dirs[req.path]

C9_Witness ==
    /\ Succeeded /\ FoundBranch
    /\ ~forceFlag /\ useExistingFlag
    /\ entry = "createWorktree"
    /\ Registered(req.branch, req.path)
    /\ pre.r[req.path] = NoBranch

\* The deletion of the Overwrite path: a "git branch -D" before any creation.
OverwriteDelete(i) ==
    /\ calls[i].op = "BranchDelete"
    /\ \A j \in 1..i : calls[j].op # "WorktreeAddFromRef"

RollbackFailed ==
    \/ \E i \in 1..Len(calls) : calls[i].op \in Compensations /\ ~calls[i].ok
    \/ \E i, j \in 1..Len(calls) :
          /\ i < j
          /\ calls[i].op = "WorktreeAddFromRef"
          /\ calls[j].op = "BranchDelete" /\ ~calls[j].ok

\* What a returned error must read to carry the failed step and the failed
\* rollback together.
BothFailures == [err |-> TRUE, what |-> "create failed; rollback failed"]

Removing == entry = "remove"
Removed == Removing /\ Done /\ ~ret.err

\* C12: a Remove that names no branch issues no branch deletion, leaves every
\* branch as it was and, when it succeeds, leaves nothing registered at the
\* path; when a branch is named its deletion is the last step, issued only
\* after the removal is done, and when it fails the failure is returned while
\* the path stays removed.
C12_BranchDeleteIsSecondStep ==
    Removing =>
        /\ req.branch = NoBranch =>
              /\ ~Issued("BranchDelete")
              /\ branchRef = pre.b
              /\ Removed => NotExists(Repo, req.path)
        /\ \A i \in 1..Len(calls) :
              calls[i].op = "BranchDelete" =>
                  /\ req.branch # NoBranch
                  /\ i = Len(calls)
                  /\ \A j \in 1..(i - 1) : calls[j].ok
                  /\ NotExists(Repo, req.path)
        /\ (Done /\ Failed("BranchDelete")) =>
              /\ ret = [err |-> TRUE, what |-> "failed to delete branch"]
              /\ NotExists(Repo, req.path)
              /\ branchRef = pre.b

C12_Witness ==
    /\ Removing /\ Done
    /\ pre.r[req.path] # NoBranch /\ pre.d[req.path]
    /\ IssuedOk("WorktreeRemove")
    /\ Failed("BranchDelete")
    /\ BranchExists(Repo, req.branch)

\* The running remove command follows a successful remove of the same path.
RemovingAgain == Removing /\ prev = req.path

RegisteredOnly(R, path) == R.r[path] # NoBranch /\ ~R.d[path]
DirectoryOnly(R, path) == R.r[path] = NoBranch /\ R.d[path]
RegisteredAndOnDisk(R, path) == R.r[path] # NoBranch /\ R.d[path]

\* Step 1 of the running remove command is over and has not failed.
RemovalDone ==
    /\ Removing
    /\ pc \in {"rmBranch", "done"}
    /\ ret.what \notin {"failed to remove worktree", "failed to remove directory"}

\* C14: a Remove whose removal step succeeds leaves neither a directory nor a
\* record at the path, whether it started from a record alone, a directory
\* alone or both; a directory without a record is deleted directly, without
\* "git worktree remove", and a record is removed by "git worktree remove".
C14_RemoveFromAnyState ==
    /\ RemovalDone => NotExists(Repo, req.path)
    /\ Removed => NotExists(Repo, req.path)
    /\ (RemovalDone /\ DirectoryOnly(pre, req.path)) =>
          /\ calls[1] = [op |-> "RemoveAll", ok |-> TRUE]
          /\ ~Issued("WorktreeRemove")
    /\ (RemovalDone /\ pre.r[req.path] # NoBranch) =>
          /\ calls[1] = [op |-> "WorktreeRemove", ok |-> TRUE]
          /\ ~Issued("RemoveAll")
          /\ pre.u[req.path] => forceFlag

C14_Witness ==
    /\ Removed
    /\ DirectoryOnly(pre, req.path)
    /\ IssuedOk("RemoveAll")
    /\ NotExists(Repo, req.path)

\* C15: a Remove without force of a worktree that holds uncommitted changes
\* fails in "git worktree remove", returns that failure and leaves the
\* repository as it was; with force the same command is not refused, and once
\* it has succeeded nothing is left at the path.
C15_ForcePassedThrough ==
    (Removing /\ HasUncommittedChanges(pre, req.path)) =>
        /\ (~forceFlag /\ pc # "rmUnregister") =>
              /\ Done
              /\ ret = [err |-> TRUE, what |-> "failed to remove worktree"]
              /\ calls = <<[op |-> "WorktreeRemove", ok |-> FALSE]>>
              /\ Repo = pre
        /\ ~forceFlag => Repo = pre
        /\ (forceFlag /\ IssuedOk("WorktreeRemove")) => NotExists(Repo, req.path)
        /\ (forceFlag /\ Removed) => NotExists(Repo, req.path)

C15_Witness ==
    /\ Removed
    /\ HasUncommittedChanges(pre, req.path)
    /\ forceFlag
    /\ calls[1] = [op |-> "WorktreeRemove", ok |-> TRUE]
    /\ NotExists(Repo, req.path)

\* A create command is running (either revision).
Creating == entry \in {"createWorktree", "runCreate"}
\* Every command of this call has succeeded (the branch check is a query).
AllOk == \A i \in 1..Len(calls) : calls[i].op # "BranchExists" => calls[i].ok

\* C16: a Create on a path with no directory and no record and a branch that
\* does not exist, all of whose commands succeed, returns success with the
\* branch created at the start point and the worktree registered for it at
\* the path; it issues the branch check and the one creating command only (no
\* prompt, no deletion, no removal) and changes nothing else.
C16_HappyPath ==
    (Creating /\ Done /\ NotExists(pre, req.path) /\ ~BranchExists(pre, req.branch)
          /\ AllOk)
        => /\ Succeeded
           /\ branchRef[req.branch] = req.startPoint
           /\ Registered(req.branch, req.path) /\ dirs[req.path]
           /\ calls = <<[op |-> "BranchExists", ok |-> FALSE],
                        [op |-> "WorktreeAddFromRef", ok |-> TRUE]>>
           /\ chosen = "none"
           /\ \A b \in Branches : b # req.branch => branchRef[b] = pre.b[b]
           /\ \A p \in Paths : p # req.path => (dirs[p] = pre.d[p] /\ regs[p] = pre.r[p])

C16_Witness ==
    /\ Creating /\ Done /\ Succeeded
    /\ NotExists(pre, req.path) /\ ~BranchExists(pre, req.branch)
    /\ req.startPoint = "FETCH_HEAD"
    /\ branchRef[req.branch] = "FETCH_HEAD"
    /\ Registered(req.branch, req.path)

\* The creating or attaching command of this call has failed: what follows it
\* in the call is the rollback.
AddFailed == Failed("WorktreeAddFromRef") \/ Failed("WorktreeAddFromBranch")
IsAdd(i) == calls[i].op \in {"WorktreeAddFromRef", "WorktreeAddFromBranch"}
RollbackDelete(j) ==
    /\ calls[j].op = "BranchDelete"
    /\ \E i \in 1..(j - 1) : IsAdd(i)

\* C17: the rollback of a failed Create undoes what this call did and nothing
\* else, last step first: what the call left at the path is removed before
\* any branch deletion, the branch is deleted by the rollback exactly when this
\* call created it, and no other branch, directory or record is touched.
\* (Stated for calls whose compensating commands all succeeded.)
C17_RollbackUndoesOwnWork ==
    (Creating /\ Done /\ AddFailed /\ CompensationsOk) =>
        /\ created.branch <=> \E j \in 1..Len(calls) : RollbackDelete(j)
        /\ \A i, j \in 1..Len(calls) :
              (RollbackDelete(i) /\ calls[j].op \in Compensations) => j < i
        /\ created.path => NotExists(Repo, req.path)
        /\ ~Issued("Remove") =>
              /\ (~created.branch /\ \A i \in 1..Len(calls) : ~OverwriteDelete(i))
                    => branchRef[req.branch] = pre.b[req.branch]
              /\ \A b \in Branches : b # req.branch => branchRef[b] = pre.b[b]
              /\ \A p \in Paths :
                    p # req.path => (dirs[p] = pre.d[p] /\ regs[p] = pre.r[p])
              /\ ~created.path => (dirs[req.path] = pre.d[req.path]
                                     /\ regs[req.path] = pre.r[req.path])

Prompts == {i \in 1..Len(calls) : calls[i].op = "Select"}

\* C19: a Create call shows the prompt at most once, and the decision on the
\* branch conflict, once taken, stays what it is until the call returns.
C19_DecisionFixed ==
    /\ [](Creating => Cardinality(Prompts) <= 1)
    /\ [][(decision # "none" /\ ncalls' = ncalls) => decision' = decision]_vars

\* C20: when the prompt has returned a choice, that choice is the decision the
\* call acts on until it returns: after Overwrite the branch is deleted and
\* only then created anew, after Attach the worktree is added on the existing
\* branch and no branch is deleted or created, after Cancel no command that
\* changes the repository is issued.
C20_ChoiceActedOn ==
    (Creating /\ chosen # "none") =>
        /\ decision = chosen
        /\ chosen = "Overwrite" =>
              /\ ~Issued("WorktreeAddFromBranch")
              /\ \A j \in 1..Len(calls) :
                    calls[j].op = "WorktreeAddFromRef" =>
                        \E i \in 1..(j - 1) : calls[i].op = "BranchDelete" /\ calls[i].ok
              /\ Done => Issued("BranchDelete")
              /\ (Done /\ IssuedOk("BranchDelete")) => Issued("WorktreeAddFromRef")
        /\ chosen = "Attach" =>
              /\ ~Issued("BranchDelete") /\ ~Issued("WorktreeAddFromRef")
              /\ Done => Issued("WorktreeAddFromBranch")
        /\ chosen = "Cancel" =>
              /\ ~Issued("BranchDelete") /\ ~Issued("WorktreeAddFromRef")
              /\ ~Issued("WorktreeAddFromBranch")
              /\ ~Issued("Remove") => Repo = pre

\* The prompt of this call gave no decision (p.Select returned an error).
NoDecision == Creating /\ Failed("Select")

\* C21: when the branch exists, neither flag decides and the prompt gives no
\* decision, the call returns an error that is not the cancellation, and it
\* has changed nothing in the repository.
C21_NoDecisionIsConflictError ==
    (NoDecision /\ Done) =>
        /\ ret.err
        /\ ret.what # "operation cancelled"
        /\ ~Issued("Remove") => Repo = pre

\* Vocabulary of the concurrent commands.
Serialized == lock # NoLock
ProcDone(p) == proc[p].pc = "done"
ProcSucceeded(p) == ProcDone(p) /\ ~proc[p].ret.err
ProcIssuedOk(p, op) ==
    \E i \in 1..Len(proc[p].calls) : proc[p].calls[i] = [op |-> op, ok |-> TRUE]
\* Both checks of p found nothing: no directory at the path, no branch.
PassedChecks(p) ==
    /\ Len(proc[p].calls) > 0
    /\ proc[p].calls[1] = [op |-> "BranchExists", ok |-> FALSE]
\* The worktree a successful command has made is there.
WorktreeIntact ==
    /\ dirs[req.path]
    /\ Registered(req.branch, req.path)
    /\ BranchExists(Repo, req.branch)
\* The cleanup of p has removed a directory that p did not make.
RemovedForeign(p) == ProcIssuedOk(p, "RemoveAll") /\ ~proc[p].created.path

\* The part of C22 about the two commands disturbing each other: when the
\* callers serialize the commands, at most one command is between its start
\* and its return, the cleanup of a command removes only a directory that this
\* command has made, and the worktree of a command that returned success is in
\* place.  (Without the mutex the state of C22_Witness is reachable.)
C22_SerializedIsSafe ==
    Serialized =>
        /\ \A p, q \in Procs :
              (p # q /\ proc[p].pc \notin {"idle", "done"})
                  => proc[q].pc \in {"idle", "done"}
        /\ \A p \in Procs : ~RemovedForeign(p)
        /\ \A p \in Procs : ProcSucceeded(p) => WorktreeIntact

\* Two interleaved commands: both passed the checks, one has created the
\* worktree and returned success, the cleanup of the other has removed the
\* directory.
C22_Witness ==
    /\ ~Serialized
    /\ \E p, q \in Procs :
          /\ p # q
          /\ PassedChecks(p) /\ PassedChecks(q)
          /\ ProcSucceeded(q) /\ proc[q].created.path /\ proc[q].created.branch
          /\ ProcDone(p) /\ proc[p].ret = [err |-> TRUE, what |-> "create failed"]
          /\ RemovedForeign(p)
    /\ ~dirs[req.path]
    /\ Registered(req.branch, req.path)

\* Process p has attempted the creation, and its cleanup, if any, worked.
ProcTriedCreate(p) ==
    /\ ProcDone(p)
    /\ proc[p].decision # "Attach"
    /\ \E i \in 1..Len(proc[p].calls) : proc[p].calls[i].op = "WorktreeAddFromRef"
    /\ \A i \in 1..Len(proc[p].calls) :
          proc[p].calls[i].op = "RemoveAll" => proc[p].calls[i].ok

\* C22: when the two Create calls are serialized no bad state is reachable:
\* no cleanup removes what the other call made, the worktree of a call that
\* returned success is in place and, when the calls have returned, the branch
\* exists with its worktree registered at the path or neither exists.
C22_SerializedNoBadState ==
    Serialized =>
        /\ \A p \in Procs : ~RemovedForeign(p)
        /\ \A p \in Procs : ProcSucceeded(p) => WorktreeIntact
        /\ ((\A p \in Procs : ProcDone(p)) /\ (\E p \in Procs : ProcTriedCreate(p)))
              => \/ BranchExists(Repo, req.branch) /\ Registered(req.branch, req.path)
                 \/ ~BranchExists(Repo, req.branch) /\ ~Registered(req.branch, req.path)
====
